---- MODULE Spec2Model ----
(***************************************************************************)
(* A model of obsidianki: the processing-history ledger (config.py), the   *)
(* weighted note sampler (api/obsidian.py, obsidian.py), the multi-turn    *)
(* query refinement agent (ai/client.py) and the sequential processing     *)
(* loop (cli/processors.py).                                               *)
(*                                                                         *)
(* Four specifications share the module; each one drives its own group of  *)
(* variables and leaves the other groups at their initial values:          *)
(*   LedgerSpec   record_flashcards_created / save_processing_history      *)
(*   SamplerSpec  sample_old_notes / _weighted_sample                      *)
(*   AgentSpec    find_notes_with_agent                                    *)
(*   RunSpec      process_flashcard_generation, sequential mode            *)
(***************************************************************************)
EXTENDS Integers, Sequences, FiniteSets, TLC

(***************************************************************************)
(* Bounds of the model.                                                    *)
(***************************************************************************)
\* record_flashcards_created calls made in one behaviour of LedgerSpec
MaxCalls == 3
\* largest flashcard count passed to one record_flashcards_created call
MaxCount == 2

\* notes the Note Store returns to sample_old_notes
MaxCandidates == 3

\* tool-use blocks in one oracle response
MaxBlocks == 2
\* notes a query can return beyond the auto-promotion limit
MaxExtra == 1
\* notes that the small query results and the finalize lists are built from
SmallNotes == 2
\* paths listed in one finalize_note_selection invocation
MaxPaths == 1

\* notes in the list that one sequential run processes
MaxRunNotes == 3
\* largest card budget (max_cards) of a run
MaxBudget == 3
\* cards the oracle returns for one note
MaxGen == 2
\* notes of a batched run
MaxBatchNotes == 2
\* cards the oracle returns for one note of a batched run
MaxBatchGen == 1
\* names or patterns given with --notes
MaxNames == 2

\* sessions recorded in the ledger for the weighted note
MaxSessions == 2

\* notes one query returns to the summary
MaxHits == 22

\* notes of a query's results that a filter drops
MaxOutside == 2

\* cards handed to the store in one insertion
MaxInsert == 3

\* previous fronts handed to the targeted generation
MaxPrevious == 2

\* max_turns of find_notes_with_agent
max_turns == 8
\* the largest last-query result that is auto-selected at the turn limit
AutoPromoteLimit == 25

\* note paths known to the ledger
Paths == {"a.md", "b.md"}
\* note sizes passed by the callers (len(note.content) of a loaded note)
Sizes == {120, 300}

(***************************************************************************)
(* Generic helpers.                                                        *)
(***************************************************************************)
\* a Python dict d after d[k] = v
Put(d, k, v) == [x \in (DOMAIN d) \cup {k} |-> IF x = k THEN v ELSE d[x]]

\* the empty dict {}
EmptyDict == [x \in {} |-> 0]

RECURSIVE SumFlashcards(_)
\* sum(s["flashcards"] for s in sessions)
SumFlashcards(sessions) ==
    IF sessions = <<>> THEN 0
    ELSE Head(sessions).flashcards + SumFlashcards(Tail(sessions))

(***************************************************************************)
(* State.                                                                  *)
(***************************************************************************)
VARIABLES
    \* ---- ledger (ConfigManager) ----
    processing_history,  \* self.processing_history: path -> entry
    history_file,        \* PROCESSING_HISTORY_FILE on disk: [valid, data]
    lpc,                 \* position inside record_flashcards_created
    now,                 \* time.time(), as a logical clock
    inflight,            \* arguments of the call in progress
    returned             \* the calls that have returned, in order

ledgerVars == <<processing_history, history_file, lpc, now, inflight, returned>>

VARIABLES
    \* ---- weighted sampler (ObsidianAPI.sample_old_notes) ----
    all_notes,           \* the notes the DQL query returned, by path
    limit,               \* the requested number of notes (0: None)
    weights,             \* weights[i]: get_sampling_weight of all_notes[i]
    has_config_manager,  \* config_manager is not None
    sampled,             \* the returned list
    spc                  \* "start", or the branch that returned

samplerVars == <<all_notes, limit, weights, has_config_manager, sampled, spc>>

VARIABLES
    \* ---- query refinement agent (FlashcardAI.find_notes_with_agent) ----
    config_manager,      \* config_manager is not None
    effective_folders,   \* the folder allow-list (empty: none configured)
    excluded_tags,       \* config_manager.get_excluded_tags()
    apc,                 \* "plan", "blocks", "post", "done"
    turn,                \* loop iterations started
    blocks_left,         \* content blocks of the response not yet processed
    results_bound,       \* the local `results` has been assigned
    results,             \* results
    last_results,        \* last_results
    final_selection_set, \* final_selection is not None
    final_selection,     \* final_selection
    selected_notes,      \* selected_notes (at "done": the selection, before sampling)
    oracle_calls,        \* client.messages.create calls made
    oracle_failed,       \* a client.messages.create call raised
    finalize_seen,       \* the oracle has invoked finalize_note_selection
    finalize_named,      \* the paths named in the latest finalize invocation
    calls_at_finalize,   \* oracle_calls when finalize was invoked
    query_at_finalize,   \* last_query when finalize was invoked
    last_query,          \* the most recent execute_dql_query invocation
    last_result_set,     \* what the most recent query that returned gave, filtered
    promoted,            \* the auto-selection branch was taken
    tool_results,        \* tool_results: the kind of each entry
    messages,            \* the tool results added to messages after the latest response
    raised_in_turn       \* a query of the current response raised

agentVars == <<config_manager, effective_folders, excluded_tags, apc, turn,
               blocks_left, results_bound, results, last_results,
               final_selection_set, final_selection, selected_notes,
               oracle_calls, oracle_failed, finalize_seen, finalize_named,
               calls_at_finalize, query_at_finalize, last_query,
               last_result_set, promoted, tool_results, messages,
               raised_in_turn>>

VARIABLES
    \* ---- sequential run (process_flashcard_generation) ----
    old_notes,           \* old_notes, each note by its path
    max_cards,           \* max_cards
    APPROVE_NOTES,       \* cli.config.APPROVE_NOTES
    APPROVE_CARDS,       \* cli.config.APPROVE_CARDS
    rpc,                 \* position in the loop body of the current note
    idx,                 \* position of the current note in old_notes
    total_cards,         \* total_cards
    cur_size,            \* note.size: len(note.content) of the current note
    flashcards,          \* the cards generated for the current note
    cards_to_add,        \* cards_to_add
    store,               \* Flashcard Store: cards accepted, per source note
    inserted,            \* Flashcard Store: cards accepted in this run
    rejected,            \* Flashcard Store: items answered with None in this run
    interrupted,         \* the run ended on a KeyboardInterrupt
    last_attempted,      \* position in old_notes of the note attempted last
    reported             \* a WARNING or ERROR line was printed about the
                         \* note taken up last

runVars == <<old_notes, max_cards, APPROVE_NOTES, APPROVE_CARDS, rpc, idx,
             total_cards, cur_size, flashcards, cards_to_add, store, inserted,
             rejected, interrupted, last_attempted, reported>>

VARIABLES
    \* ---- batched run (process_flashcard_generation, use_batch_mode) ----
    valid_notes,         \* valid_notes, each note by its position in old_notes
    futures,             \* future_to_note: position -> state of its future
    has_content,         \* positions whose note.content is not empty
    approved_notes,      \* positions whose note-approval prompt got a yes
    ledger_writers,      \* positions inside record_flashcards_created
    cards_added,         \* cards_added of the note being processed
    completed_late       \* positions whose generation completed after the
                         \* inserted-card count had reached max_cards

batchVars == <<valid_notes, futures, has_content, approved_notes,
               ledger_writers,
               cards_added, completed_late>>

VARIABLES
    \* ---- command line entry point (main_clean.py main) ----
    args_notes,          \* len(args.notes); 0: --notes not given
    args_cards,          \* args.cards; -1: None
    args_agent,          \* --agent given
    mpc,                 \* position in main
    main_max_cards,      \* max_cards of main; -1: not assigned
    notes_to_sample,     \* notes_to_sample of main; -1: not assigned
    outcome,             \* how the call of the orchestrator went
    main_result,         \* result = main(); -1: none
    exit_status          \* the exit status of the process; -1: still running

mainVars == <<args_notes, args_cards, args_agent, mpc, main_max_cards,
              notes_to_sample, outcome, main_result, exit_status>>

VARIABLES
    \* ---- sampling weights (config.py ConfigManager, cli/models.py Note) ----
    tag_file,            \* the tag schema file on disk
    SAMPLING_MODE,       \* config.py SAMPLING_MODE
    DENSITY_BIAS_STRENGTH, \* config.py DENSITY_BIAS_STRENGTH, in tenths
    wpc,                 \* position: construction, weighting, done
    tag_weights,         \* ConfigManager.tag_weights, the weights in tenths
    note_tags,           \* note.tags
    reported_size,       \* the 'size' of the note in the query result
    content_loaded,      \* note.content holds the text of the note
    tag_weight,          \* tag_weight of get_sampling_weight_for_note, tenths
    density_bias,        \* the density bias, num / den
    final_weight         \* the returned sampling weight, num / den

weightVars == <<tag_file, SAMPLING_MODE, DENSITY_BIAS_STRENGTH, wpc,
                tag_weights, note_tags, reported_size, content_loaded,
                tag_weight, density_bias, final_weight>>

VARIABLES
    \* ---- result summary of one query (ai/client.py 392-447) ----
    query_hits,          \* number of notes search_with_dql returned
    outside,             \* how many of them, the first ones, a filter drops
    sumpc,               \* position: query returned, summary appended
    filtered_results,    \* results after the filters
    result_summary       \* the summary handed to the oracle

summaryVars == <<query_hits, outside, sumpc, filtered_results, result_summary>>

VARIABLES
    \* ---- recorded fronts (cli/processors.py process_generated_flashcards) ----
    to_add,              \* the fronts of cards_to_add, in order
    add_result,          \* result of add_flashcards: TRUE an id, FALSE None
    fpc,                 \* position: inserted, recorded, failed
    recorded_count,      \* successful_cards passed to the ledger; -1: no call
    flashcard_fronts     \* flashcard_fronts passed to the ledger

frontsVars == <<to_add, add_result, fpc, recorded_count, flashcard_fronts>>

VARIABLES
    \* ---- targeted generation (ai/client.py
    \*      generate_flashcards_from_note_and_query) ----
    previous_fronts,     \* number of previous fronts given; 0: None or []
    deck_examples,       \* deck examples were given
    target_cards,        \* target_cards; 0: None
    qpc,                 \* position in the function
    user_prompt,         \* the local user_prompt: bound or not, and its parts
    request_sent,        \* messages.create was called
    oracle_reply,        \* what the oracle answered
    generated            \* the returned list: its length; -1: not returned

queryGenVars == <<previous_fronts, deck_examples, target_cards, qpc,
                  user_prompt, request_sent, oracle_reply, generated>>

coreVars == <<ledgerVars, samplerVars, agentVars, runVars, batchVars>>

extraVars == <<mainVars, weightVars, summaryVars, frontsVars, queryGenVars>>

vars == <<coreVars, extraVars>>

notMain == <<coreVars, weightVars, summaryVars, frontsVars, queryGenVars>>
notWeight == <<coreVars, mainVars, summaryVars, frontsVars, queryGenVars>>
notSummary == <<coreVars, mainVars, weightVars, frontsVars, queryGenVars>>
notFronts == <<coreVars, mainVars, weightVars, summaryVars, queryGenVars>>
notQueryGen == <<coreVars, mainVars, weightVars, summaryVars, frontsVars>>

notLedger == <<samplerVars, agentVars, runVars, batchVars, extraVars>>
notSampler == <<ledgerVars, agentVars, runVars, batchVars, extraVars>>
notAgent == <<ledgerVars, samplerVars, runVars, batchVars, extraVars>>
\* a run writes the ledger through record_flashcards_created
notBatch == <<samplerVars, agentVars, lpc, inflight, returned, extraVars>>
notRun == <<notBatch, batchVars>>

(***************************************************************************)
(* ConfigManager.record_flashcards_created, the in-memory part             *)
(* (config.py 151-164).                                                    *)
(***************************************************************************)
\* a plausible slip: the total is overwritten instead of incremented
RecordFlashcardsCreatedOverwrite(h, note_path, note_size, flashcard_count, date) ==
    LET h1 == IF note_path \notin DOMAIN h
              THEN Put(h, note_path, [size |-> note_size, total_flashcards |-> 0,
                                      sessions |-> <<>>])
              ELSE h
        e == h1[note_path]
    IN Put(h1, note_path,
           [size |-> note_size,
            total_flashcards |-> flashcard_count,
            sessions |-> Append(e.sessions,
                                [date |-> date, flashcards |-> flashcard_count])])

\* a plausible slip: the entry is rebuilt on every call, dropping old sessions
RecordFlashcardsCreatedReset(h, note_path, note_size, flashcard_count, date) ==
    LET old == IF note_path \in DOMAIN h THEN h[note_path].total_flashcards ELSE 0
    IN Put(h, note_path,
           [size |-> note_size,
            total_flashcards |-> old + flashcard_count,
            sessions |-> <<[date |-> date, flashcards |-> flashcard_count]>>])

RecordFlashcardsCreated(h, note_path, note_size, flashcard_count, date) ==
    LET h1 == IF note_path \notin DOMAIN h
              THEN Put(h, note_path, [size |-> note_size, total_flashcards |-> 0,
                                      sessions |-> <<>>])
              ELSE h
        e == h1[note_path]
    IN Put(h1, note_path,
           [size |-> note_size,
            total_flashcards |-> e.total_flashcards + flashcard_count,
            sessions |-> Append(e.sessions,
                                [date |-> date, flashcards |-> flashcard_count])])

\* the content of a history file that open(..., 'w') has truncated and
\* json.dump has not yet completed: not a loadable history
TruncatedFile == [valid |-> FALSE, data |-> EmptyDict]

\* the file after json.dump(self.processing_history, f) has completed
DumpedFile(h) == [valid |-> TRUE, data |-> h]

NoCall == [path |-> "", size |-> 0, count |-> 0, date |-> 0]

LedgerStart ==
    /\ processing_history = EmptyDict
    /\ history_file = DumpedFile(EmptyDict)
    /\ lpc = "idle"
    /\ now = 0
    /\ inflight = NoCall
    /\ returned = <<>>

\* record_flashcards_created(note_path, note_size, flashcard_count), up to the
\* call of save_processing_history
RecordCall ==
    /\ lpc = "idle"
    /\ now < MaxCalls
    /\ \E p \in Paths, s \in Sizes, c \in 1..MaxCount :
          /\ processing_history' =
                RecordFlashcardsCreated(processing_history, p, s, c, now + 1)
          /\ inflight' = [path |-> p, size |-> s, count |-> c, date |-> now + 1]
    /\ now' = now + 1
    /\ lpc' = "open"
    /\ UNCHANGED <<history_file, returned>>
    /\ UNCHANGED notLedger

\* save_processing_history: open(PROCESSING_HISTORY_FILE, 'w') truncates the file
SaveOpen ==
    /\ lpc = "open"
    /\ history_file' = TruncatedFile
    /\ lpc' = "dump"
    /\ UNCHANGED <<processing_history, now, inflight, returned>>
    /\ UNCHANGED notLedger

\* save_processing_history: json.dump completes, the file is closed and
\* record_flashcards_created returns
SaveDump ==
    /\ lpc = "dump"
    /\ history_file' = DumpedFile(processing_history)
    /\ returned' = Append(returned, inflight)
    /\ inflight' = NoCall
    /\ lpc' = "idle"
    /\ UNCHANGED <<processing_history, now>>
    /\ UNCHANGED notLedger

\* the process is killed; what is on disk stays as it is
Crash ==
    /\ lpc \in {"idle", "open", "dump"}
    /\ lpc' = "crashed"
    /\ UNCHANGED <<processing_history, history_file, now, inflight, returned>>
    /\ UNCHANGED notLedger

(***************************************************************************)
(* The weighted sampler: ObsidianAPI.sample_old_notes and _weighted_sample *)
(* (api/obsidian.py 120-170; obsidian.py 128-179 is the same code on       *)
(* dicts).                                                                 *)
(***************************************************************************)
\* weights a note can get: tag weight times density bias, in tenths;
\* a schema weight of 0 gives a note the weight 0
WeightValues == {0, 1, 20}

\* the list [1, ..., n]: n query results, each with its own path
PrefixSeq(n) == [i \in 1..n |-> i]

\* the elements of a list
Range(s) == {s[i] : i \in DOMAIN s}

\* no element occurs twice in the list
Distinct(s) == \A i, j \in DOMAIN s : i # j => s[i] # s[j]

\* sum(weights)
RECURSIVE SumSeq(_)
SumSeq(s) == IF s = <<>> THEN 0 ELSE Head(s) + SumSeq(Tail(s))

\* random.choices(notes, weights=w, k=k): k independent draws, each of them
\* any element of positive weight; the set of lists it can return
WeightedSample(notes, k, w) ==
    [1..k -> {notes[i] : i \in {j \in DOMAIN notes : w[j] > 0}}]

\* random.sample(notes, k): k draws without replacement
UniformSample(notes, k) ==
    {s \in [1..k -> Range(notes)] : Distinct(s)}

SamplerStart ==
    /\ \E n \in 0..MaxCandidates :
          /\ all_notes = PrefixSeq(n)
          /\ weights \in [1..n -> WeightValues]
    /\ limit \in 0..MaxCandidates
    /\ has_config_manager \in BOOLEAN
    /\ sampled = <<>>
    /\ spc = "start"

\* if not all_notes: return []
SampleNoNotes ==
    /\ spc = "start"
    /\ all_notes = <<>>
    /\ sampled' = <<>>
    /\ spc' = "empty"
    /\ UNCHANGED <<all_notes, limit, weights, has_config_manager>>
    /\ UNCHANGED notSampler

\* if not limit or len(all_notes) <= limit: return all_notes
SampleAll ==
    /\ spc = "start"
    /\ all_notes # <<>>
    /\ limit = 0 \/ Len(all_notes) <= limit
    /\ sampled' = all_notes
    /\ spc' = "all"
    /\ UNCHANGED <<all_notes, limit, weights, has_config_manager>>
    /\ UNCHANGED notSampler

\* return self._weighted_sample(all_notes, limit, config_manager, bias_strength)
SampleWeighted ==
    /\ spc = "start"
    /\ all_notes # <<>>
    /\ limit # 0 /\ Len(all_notes) > limit
    /\ has_config_manager
    /\ SumSeq(weights) > 0
    /\ \E s \in WeightedSample(all_notes, limit, weights) : sampled' = s
    /\ spc' = "weighted"
    /\ UNCHANGED <<all_notes, limit, weights, has_config_manager>>
    /\ UNCHANGED notSampler

\* random.choices raises ValueError when the weights sum to zero
SampleWeightedError ==
    /\ spc = "start"
    /\ all_notes # <<>>
    /\ limit # 0 /\ Len(all_notes) > limit
    /\ has_config_manager
    /\ SumSeq(weights) <= 0
    /\ sampled' = <<>>
    /\ spc' = "raised"
    /\ UNCHANGED <<all_notes, limit, weights, has_config_manager>>
    /\ UNCHANGED notSampler

\* return random.sample(all_notes, limit)
SampleUniform ==
    /\ spc = "start"
    /\ all_notes # <<>>
    /\ limit # 0 /\ Len(all_notes) > limit
    /\ ~has_config_manager
    /\ \E s \in UniformSample(all_notes, limit) : sampled' = s
    /\ spc' = "uniform"
    /\ UNCHANGED <<all_notes, limit, weights, has_config_manager>>
    /\ UNCHANGED notSampler

\* the sampler's variables while another component runs
SamplerIdle ==
    /\ all_notes = <<>>
    /\ limit = 0
    /\ weights = <<>>
    /\ has_config_manager = FALSE
    /\ sampled = <<>>
    /\ spc = "start"

(***************************************************************************)
(* The query refinement agent: FlashcardAI.find_notes_with_agent           *)
(* (ai/client.py 335-517).  A note is its number; note n has the path      *)
(* NoteDir(n)/n.md and the tags NoteTags(n).                               *)
(***************************************************************************)
\* the folder of a note's path, as path components
NoteDir(n) == IF n = 1 THEN <<"inbox">> ELSE <<"projects", "x">>

\* the tags the Note Store reports for a note
NoteTags(n) == IF n = 2 THEN {"private", "todo"} ELSE {"todo"}

\* the folder allow-lists of the model (SEARCH_FOLDERS / --allow)
FolderConfigs == {{}, {<<"projects">>}}

\* the excluded-tag lists of the model
TagConfigs == {{}, {"private"}}

\* note_path.startswith(f"{folder}/")
StartsWithFolder(dir, folder) ==
    /\ Len(folder) <= Len(dir)
    /\ SubSeq(dir, 1, Len(folder)) = folder

\* the filter of lines 398-417 keeps the note
KeepsNote(n, folders, excluded) ==
    /\ folders # {} => \E f \in folders : StartsWithFolder(NoteDir(n), f)
    /\ ~(excluded # {} /\ \E t \in excluded : t \in NoteTags(n))

\* results after "Apply filtering (folders, excluded tags)"
ApplyFilters(raw, has_config, folders, excluded) ==
    IF has_config
    THEN SelectSeq(raw, LAMBDA n : KeepsNote(n, folders, excluded))
    ELSE raw

\* lists of at most k elements of S
SeqsUpTo(S, k) == UNION {[1..m -> S] : m \in 0..k}

\* what search_with_dql can return: nothing, a few notes in some order, or a
\* list around the auto-selection limit
QueryResults ==
    {PrefixSeq(0)}
    \cup {s \in SeqsUpTo(1..SmallNotes, 2) : s # <<>> /\ Distinct(s)}
    \cup {PrefixSeq(AutoPromoteLimit + d) : d \in 0..MaxExtra}

\* the selected_paths an oracle can pass; 0 is a path that no note has
SelectedPathLists == SeqsUpTo(0..SmallNotes, MaxPaths)

\* for turn in range(max_turns): another iteration starts
TurnsRemainOneMore(t) == t <= max_turns

TurnsRemain(t) == t < max_turns

\* lines 465-470: for each listed path, the first result with that path
RECURSIVE MatchPaths(_, _)
MatchPaths(paths, res) ==
    IF paths = <<>> THEN <<>>
    ELSE LET hit == {i \in DOMAIN res : res[i] = Head(paths)}
             rest == MatchPaths(Tail(paths), res)
         IN IF hit = {} THEN rest
            ELSE <<res[CHOOSE i \in hit : \A j \in hit : i <= j]>> \o rest

\* line 502 with the limit itself left out
CanAutoSelectBelow(last) == last # <<>> /\ Len(last) < AutoPromoteLimit

\* line 502: last_results and len(last_results) <= 25
CanAutoSelect(last) == last # <<>> /\ Len(last) <= AutoPromoteLimit

\* lines 449-455 with the error text not handed back
ToolResultsAfterErrorDropped(tr) == tr

\* lines 449-455: the handler appends "DQL Error: ..." as the call's tool result
ToolResultsAfterError(tr) == Append(tr, "error")

NoQuery == [ran |-> FALSE, ok |-> FALSE, set |-> <<>>]

AgentStart ==
    /\ config_manager \in BOOLEAN
    /\ effective_folders \in FolderConfigs
    /\ excluded_tags \in IF config_manager THEN TagConfigs ELSE {{}}
    /\ apc = "plan"
    /\ turn = 0
    /\ blocks_left = 0
    /\ results_bound = FALSE
    /\ results = <<>>
    /\ last_results = <<>>
    /\ final_selection_set = FALSE
    /\ final_selection = <<>>
    /\ selected_notes = <<>>
    /\ oracle_calls = 0
    /\ oracle_failed = FALSE
    /\ finalize_seen = FALSE
    /\ finalize_named = {}
    /\ calls_at_finalize = 0
    /\ query_at_finalize = NoQuery
    /\ last_query = NoQuery
    /\ last_result_set = <<>>
    /\ promoted = FALSE
    /\ tool_results = <<>>
    /\ messages = <<>>
    /\ raised_in_turn = FALSE

agentConfig == <<config_manager, effective_folders, excluded_tags>>

\* lines 361-376: the next turn's client.messages.create returns a response
OracleCallReturns ==
    /\ apc = "plan"
    /\ TurnsRemain(turn)
    /\ turn' = turn + 1
    /\ oracle_calls' = oracle_calls + 1
    /\ blocks_left' \in 0..MaxBlocks
    /\ final_selection_set' = FALSE
    /\ final_selection' = <<>>
    /\ apc' = "blocks"
    /\ UNCHANGED <<results_bound, results, last_results, selected_notes,
                   oracle_failed, finalize_seen, finalize_named,
                   calls_at_finalize, query_at_finalize, last_query,
                   last_result_set, promoted>>
    /\ tool_results' = <<>>
    /\ messages' = <<>>
    /\ raised_in_turn' = FALSE
    /\ UNCHANGED agentConfig
    /\ UNCHANGED notAgent

\* lines 363, 496-498: client.messages.create raises; return []
OracleCallRaises ==
    /\ apc = "plan"
    /\ TurnsRemain(turn)
    /\ turn' = turn + 1
    /\ oracle_calls' = oracle_calls + 1
    /\ oracle_failed' = TRUE
    /\ apc' = "done"
    /\ UNCHANGED <<blocks_left, results_bound, results, last_results,
                   final_selection_set, final_selection, selected_notes,
                   finalize_seen, finalize_named, calls_at_finalize,
                   query_at_finalize, last_query, last_result_set, promoted>>
    /\ UNCHANGED <<tool_results, messages, raised_in_turn>>
    /\ UNCHANGED agentConfig
    /\ UNCHANGED notAgent

\* lines 383-447: an execute_dql_query block whose query returns
ExecuteQueryReturns ==
    /\ apc = "blocks"
    /\ blocks_left > 0
    /\ \E raw \in QueryResults :
          LET kept == ApplyFilters(raw, config_manager, effective_folders,
                                   excluded_tags)
          IN /\ results' = kept
             /\ last_results' = kept
             /\ last_query' = [ran |-> TRUE, ok |-> TRUE, set |-> kept]
             /\ last_result_set' = kept
    /\ results_bound' = TRUE
    /\ blocks_left' = blocks_left - 1
    /\ UNCHANGED <<apc, turn, final_selection_set, final_selection,
                   selected_notes, oracle_calls, oracle_failed, finalize_seen,
                   finalize_named, calls_at_finalize, query_at_finalize,
                   promoted>>
    /\ tool_results' = Append(tool_results, "summary")
    /\ UNCHANGED <<messages, raised_in_turn>>
    /\ UNCHANGED agentConfig
    /\ UNCHANGED notAgent

\* lines 392, 449-455: search_with_dql raises; the error text is the tool result
ExecuteQueryRaises ==
    /\ apc = "blocks"
    /\ blocks_left > 0
    /\ last_query' = [ran |-> TRUE, ok |-> FALSE, set |-> <<>>]
    /\ blocks_left' = blocks_left - 1
    /\ UNCHANGED <<apc, turn, results_bound, results, last_results,
                   final_selection_set, final_selection, selected_notes,
                   oracle_calls, oracle_failed, finalize_seen, finalize_named,
                   calls_at_finalize, query_at_finalize, last_result_set,
                   promoted>>
    /\ tool_results' = ToolResultsAfterError(tool_results)
    /\ raised_in_turn' = TRUE
    /\ UNCHANGED messages
    /\ UNCHANGED agentConfig
    /\ UNCHANGED notAgent

\* lines 457-475: a finalize_note_selection block
FinalizeSelection ==
    /\ apc = "blocks"
    /\ blocks_left > 0
    /\ \E paths \in SelectedPathLists :
          /\ results_bound \/ paths = <<>>
          /\ final_selection' = MatchPaths(paths, results)
          /\ finalize_named' = Range(paths)
    /\ final_selection_set' = TRUE
    /\ finalize_seen' = TRUE
    /\ calls_at_finalize' = oracle_calls
    /\ query_at_finalize' = last_query
    /\ blocks_left' = blocks_left - 1
    /\ UNCHANGED <<apc, turn, results_bound, results, last_results,
                   selected_notes, oracle_calls, oracle_failed, last_query,
                   last_result_set, promoted>>
    /\ tool_results' = Append(tool_results, "finalized")
    /\ UNCHANGED <<messages, raised_in_turn>>
    /\ UNCHANGED agentConfig
    /\ UNCHANGED notAgent

\* lines 466-467, 496-498: finalize before any query has returned: `results` is
\* unbound, the NameError is caught by the loop's handler; return []
FinalizeUnbound ==
    /\ apc = "blocks"
    /\ blocks_left > 0
    /\ ~results_bound
    /\ \E paths \in SelectedPathLists :
          /\ paths # <<>>
          /\ finalize_named' = Range(paths)
    /\ final_selection_set' = TRUE
    /\ final_selection' = <<>>
    /\ finalize_seen' = TRUE
    /\ calls_at_finalize' = oracle_calls
    /\ query_at_finalize' = last_query
    /\ apc' = "done"
    /\ UNCHANGED <<turn, blocks_left, results_bound, results, last_results,
                   selected_notes, oracle_calls, oracle_failed, last_query,
                   last_result_set, promoted>>
    /\ UNCHANGED <<tool_results, messages, raised_in_turn>>
    /\ UNCHANGED agentConfig
    /\ UNCHANGED notAgent

\* line 379: a content block that is not a tool use
TextBlock ==
    /\ apc = "blocks"
    /\ blocks_left > 0
    /\ blocks_left' = blocks_left - 1
    /\ UNCHANGED <<apc, turn, results_bound, results, last_results,
                   final_selection_set, final_selection, selected_notes,
                   oracle_calls, oracle_failed, finalize_seen, finalize_named,
                   calls_at_finalize, query_at_finalize, last_query,
                   last_result_set, promoted>>
    /\ UNCHANGED <<tool_results, messages, raised_in_turn>>
    /\ UNCHANGED agentConfig
    /\ UNCHANGED notAgent

\* lines 491-494: all blocks processed and a selection was finalized; break
EndTurnFinalized ==
    /\ apc = "blocks"
    /\ blocks_left = 0
    /\ final_selection_set
    /\ selected_notes' = final_selection
    /\ apc' = "post"
    /\ UNCHANGED <<turn, blocks_left, results_bound, results, last_results,
                   final_selection_set, final_selection, oracle_calls,
                   oracle_failed, finalize_seen, finalize_named,
                   calls_at_finalize, query_at_finalize, last_query,
                   last_result_set, promoted>>
    /\ messages' = tool_results
    /\ UNCHANGED <<tool_results, raised_in_turn>>
    /\ UNCHANGED agentConfig
    /\ UNCHANGED notAgent

\* line 492: no selection in this response; the loop goes on
EndTurnContinue ==
    /\ apc = "blocks"
    /\ blocks_left = 0
    /\ ~final_selection_set
    /\ apc' = "plan"
    /\ UNCHANGED <<turn, blocks_left, results_bound, results, last_results,
                   final_selection_set, final_selection, selected_notes,
                   oracle_calls, oracle_failed, finalize_seen, finalize_named,
                   calls_at_finalize, query_at_finalize, last_query,
                   last_result_set, promoted>>
    /\ messages' = tool_results
    /\ UNCHANGED <<tool_results, raised_in_turn>>
    /\ UNCHANGED agentConfig
    /\ UNCHANGED notAgent

\* line 361: range(max_turns) is exhausted
LoopExhausted ==
    /\ apc = "plan"
    /\ ~TurnsRemain(turn)
    /\ apc' = "post"
    /\ UNCHANGED <<turn, blocks_left, results_bound, results, last_results,
                   final_selection_set, final_selection, selected_notes,
                   oracle_calls, oracle_failed, finalize_seen, finalize_named,
                   calls_at_finalize, query_at_finalize, last_query,
                   last_result_set, promoted>>
    /\ UNCHANGED <<tool_results, messages, raised_in_turn>>
    /\ UNCHANGED agentConfig
    /\ UNCHANGED notAgent

\* lines 500-507: the selection after the loop
AfterLoop ==
    /\ apc = "post"
    /\ IF selected_notes = <<>>
       THEN IF CanAutoSelect(last_results)
            THEN /\ selected_notes' = last_results
                 /\ promoted' = TRUE
            ELSE UNCHANGED <<selected_notes, promoted>>
       ELSE UNCHANGED <<selected_notes, promoted>>
    /\ apc' = "done"
    /\ UNCHANGED <<turn, blocks_left, results_bound, results, last_results,
                   final_selection_set, final_selection, oracle_calls,
                   oracle_failed, finalize_seen, finalize_named,
                   calls_at_finalize, query_at_finalize, last_query,
                   last_result_set>>
    /\ UNCHANGED <<tool_results, messages, raised_in_turn>>
    /\ UNCHANGED agentConfig
    /\ UNCHANGED notAgent

\* the agent's variables while another component runs
AgentIdle ==
    /\ config_manager = FALSE
    /\ effective_folders = {}
    /\ excluded_tags = {}
    /\ apc = "plan"
    /\ turn = 0
    /\ blocks_left = 0
    /\ results_bound = FALSE
    /\ results = <<>>
    /\ last_results = <<>>
    /\ final_selection_set = FALSE
    /\ final_selection = <<>>
    /\ selected_notes = <<>>
    /\ oracle_calls = 0
    /\ oracle_failed = FALSE
    /\ finalize_seen = FALSE
    /\ finalize_named = {}
    /\ calls_at_finalize = 0
    /\ query_at_finalize = NoQuery
    /\ last_query = NoQuery
    /\ last_result_set = <<>>
    /\ promoted = FALSE
    /\ tool_results = <<>>
    /\ messages = <<>>
    /\ raised_in_turn = FALSE

(***************************************************************************)
(* The sequential run: process_flashcard_generation, lines 346-390, with   *)
(* generate_flashcards_for_note (12-38) and process_generated_flashcards   *)
(* (41-82) of cli/processors.py.                                           *)
(***************************************************************************)
\* line 71 with every returned item counted, the rejected ones too
CountSuccessfulAll(result) == Len(result)

\* line 71: len([r for r in result if r is not None]); result[i] is TRUE when
\* the store returned an id for item i and FALSE when it returned None
CountSuccessful(result) == Cardinality({i \in DOMAIN result : result[i]})

\* the lists that keep some of the elements of s, in order
SubSeqs(s) ==
    {SelectSeq(s, LAMBDA c : c \in K) : K \in SUBSET Range(s)}

\* line 349 with the comparison made strict
BudgetReachedStrict(total, budget) == total > budget

\* line 349: if total_cards >= max_cards: break
BudgetReached(total, budget) == total >= budget

runConfig == <<old_notes, max_cards, APPROVE_NOTES, APPROVE_CARDS>>

\* lines 189-254: old_notes as the note set is resolved: the weighted sample
\* (random.choices), or the notes found for each name or pattern of --notes
\* appended one after the other; neither removes a note that is already there
ResolvedNoteLists == {s \in SeqsUpTo(Paths, MaxRunNotes) : s # <<>>}

RunStart ==
    /\ old_notes \in ResolvedNoteLists
    /\ max_cards \in 1..MaxBudget
    /\ APPROVE_NOTES \in BOOLEAN
    /\ APPROVE_CARDS \in BOOLEAN
    /\ rpc = "loop"
    /\ idx = 1
    /\ total_cards = 0
    /\ cur_size = 0
    /\ flashcards = <<>>
    /\ cards_to_add = <<>>
    /\ store = [p \in Paths |-> 0]
    /\ inserted = 0
    /\ rejected = 0
    /\ interrupted = FALSE
    /\ last_attempted = 0
    /\ reported = FALSE

\* `continue`: on to the next note
NextNote ==
    /\ idx' = idx + 1
    /\ rpc' = "loop"
    /\ cur_size' = 0
    /\ flashcards' = <<>>
    /\ cards_to_add' = <<>>

\* line 348: the list is exhausted
SeqListDone ==
    /\ rpc = "loop"
    /\ idx > Len(old_notes)
    /\ rpc' = "done"
    /\ UNCHANGED <<idx, total_cards, cur_size, flashcards, cards_to_add, store,
                   inserted, rejected, interrupted>>
    /\ UNCHANGED <<runConfig, processing_history, history_file, now>>
    /\ UNCHANGED last_attempted
    /\ UNCHANGED reported
    /\ UNCHANGED notRun

\* lines 349-350: if total_cards >= max_cards: break
SeqBudgetReached ==
    /\ rpc = "loop"
    /\ idx <= Len(old_notes)
    /\ BudgetReached(total_cards, max_cards)
    /\ rpc' = "done"
    /\ UNCHANGED <<idx, total_cards, cur_size, flashcards, cards_to_add, store,
                   inserted, rejected, interrupted>>
    /\ UNCHANGED <<runConfig, processing_history, history_file, now>>
    /\ UNCHANGED last_attempted
    /\ UNCHANGED reported
    /\ UNCHANGED notRun

\* lines 353-356: the content is fetched; an empty note is skipped
SeqLoadContent ==
    /\ rpc = "loop"
    /\ idx <= Len(old_notes)
    /\ ~BudgetReached(total_cards, max_cards)
    /\ \E len \in {0} \cup Sizes :
          IF len = 0
          THEN NextNote
          ELSE /\ cur_size' = len
               /\ rpc' = IF APPROVE_NOTES THEN "approve_note" ELSE "generate"
               /\ UNCHANGED <<idx, flashcards, cards_to_add>>
    /\ UNCHANGED <<total_cards, store, inserted, rejected, interrupted>>
    /\ UNCHANGED <<runConfig, processing_history, history_file, now>>
    /\ last_attempted' = idx
    /\ reported' = FALSE
    /\ UNCHANGED notRun

\* line 354: obsidian.get_note_content raises; nothing in the loop catches it
SeqLoadRaises ==
    /\ rpc = "loop"
    /\ idx <= Len(old_notes)
    /\ ~BudgetReached(total_cards, max_cards)
    /\ rpc' = "raised"
    /\ UNCHANGED <<idx, total_cards, cur_size, flashcards, cards_to_add, store,
                   inserted, rejected, interrupted>>
    /\ UNCHANGED <<runConfig, processing_history, history_file, now>>
    /\ last_attempted' = idx
    /\ UNCHANGED reported
    /\ UNCHANGED notRun

\* lines 361-364: the user answers the note-approval prompt
SeqApproveNote ==
    /\ rpc = "approve_note"
    /\ \E approved \in BOOLEAN :
          IF approved
          THEN /\ rpc' = "generate"
               /\ UNCHANGED <<idx, cur_size, flashcards, cards_to_add>>
          ELSE NextNote
    /\ UNCHANGED <<total_cards, store, inserted, rejected, interrupted>>
    /\ UNCHANGED <<runConfig, processing_history, history_file, now>>
    /\ UNCHANGED last_attempted
    /\ UNCHANGED reported
    /\ UNCHANGED notRun

\* lines 365-367 and 59-60, 384-386: KeyboardInterrupt at a prompt;
\* return total_cards
SeqInterrupt ==
    /\ rpc \in {"approve_note", "cards"}
    /\ rpc' = "done"
    /\ interrupted' = TRUE
    /\ UNCHANGED <<idx, total_cards, cur_size, flashcards, cards_to_add, store,
                   inserted, rejected>>
    /\ UNCHANGED <<runConfig, processing_history, history_file, now>>
    /\ UNCHANGED last_attempted
    /\ UNCHANGED reported
    /\ UNCHANGED notRun

\* lines 374-378 and 45-51: the oracle returns its cards; none: skip the note
SeqGenerate ==
    /\ rpc = "generate"
    /\ \E n \in 0..MaxGen :
          IF n = 0
          THEN /\ NextNote
               /\ reported' = TRUE
          ELSE /\ flashcards' = PrefixSeq(n)
               /\ cards_to_add' = PrefixSeq(n)
               /\ rpc' = IF APPROVE_CARDS THEN "cards" ELSE "insert"
               /\ UNCHANGED <<idx, cur_size, reported>>
    /\ UNCHANGED <<total_cards, store, inserted, rejected, interrupted>>
    /\ UNCHANGED <<runConfig, processing_history, history_file, now>>
    /\ UNCHANGED last_attempted
    /\ UNCHANGED notRun

\* lines 52-67: the user approves some of the cards; none: return 0
SeqApproveCards ==
    /\ rpc = "cards"
    /\ \E approved_flashcards \in SubSeqs(flashcards) :
          IF approved_flashcards = <<>>
          THEN /\ NextNote
               /\ reported' = TRUE
          ELSE /\ cards_to_add' = approved_flashcards
               /\ rpc' = "insert"
               /\ UNCHANGED <<idx, cur_size, flashcards, reported>>
    /\ UNCHANGED <<total_cards, store, inserted, rejected, interrupted>>
    /\ UNCHANGED <<runConfig, processing_history, history_file, now>>
    /\ UNCHANGED last_attempted
    /\ UNCHANGED notRun

\* lines 69-82 and 381-382: the store answers item by item; when it accepted a
\* card the ledger is updated and saved, and total_cards grows
SeqInsert ==
    /\ rpc = "insert"
    /\ \E result \in [DOMAIN cards_to_add -> BOOLEAN] :
          LET note_path == old_notes[idx]
              accepted == {i \in DOMAIN result : result[i]}
              successful_cards == CountSuccessful(result)
          IN /\ store' = [store EXCEPT ![note_path] = @ + Cardinality(accepted)]
             /\ inserted' = inserted + Cardinality(accepted)
             /\ rejected' = rejected + Len(result) - Cardinality(accepted)
             /\ IF successful_cards > 0
                THEN /\ processing_history' =
                           RecordFlashcardsCreated(processing_history, note_path,
                                                   cur_size, successful_cards,
                                                   now + 1)
                     /\ history_file' = DumpedFile(processing_history')
                     /\ now' = now + 1
                     /\ total_cards' = total_cards + successful_cards
                     /\ UNCHANGED reported
                ELSE /\ reported' = TRUE
                     /\ UNCHANGED <<processing_history, history_file, now,
                                    total_cards>>
    /\ NextNote
    /\ UNCHANGED interrupted
    /\ UNCHANGED runConfig
    /\ UNCHANGED last_attempted
    /\ UNCHANGED notRun

\* line 70: anki.add_flashcards raises (AnkiConnect reports an error, nothing is
\* added); the sequential loop catches KeyboardInterrupt only
SeqInsertRaises ==
    /\ rpc = "insert"
    /\ rpc' = "raised"
    /\ UNCHANGED <<idx, total_cards, cur_size, flashcards, cards_to_add, store,
                   inserted, rejected, interrupted>>
    /\ UNCHANGED <<runConfig, processing_history, history_file, now>>
    /\ UNCHANGED last_attempted
    /\ UNCHANGED reported
    /\ UNCHANGED notRun

\* the run's variables while another component runs
RunIdle ==
    /\ old_notes = <<>>
    /\ max_cards = 0
    /\ APPROVE_NOTES = FALSE
    /\ APPROVE_CARDS = FALSE
    /\ rpc = "loop"
    /\ idx = 1
    /\ total_cards = 0
    /\ cur_size = 0
    /\ flashcards = <<>>
    /\ cards_to_add = <<>>
    /\ store = [p \in Paths |-> 0]
    /\ inserted = 0
    /\ rejected = 0
    /\ interrupted = FALSE
    /\ last_attempted = 0
    /\ reported = FALSE

(***************************************************************************)
(* The batched run: process_flashcard_generation, lines 296-345 and        *)
(* 388-390 of cli/processors.py.  The upfront loop (300-315) fills         *)
(* valid_notes, the executor runs generate_flashcards_for_note for each of *)
(* them in a worker thread, and the orchestrating thread takes the futures *)
(* as they complete (329-345).  A note is named by its position in         *)
(* old_notes.                                                              *)
(***************************************************************************)
\* lines 311-312 with the answer ignored
KeepsApprovedAlways(answer) == TRUE

\* lines 311-312: if not approve_note(...): continue
KeepsApproved(answer) == answer

\* line 264: batch mode needs more than one note
BatchNoteLists == {s \in SeqsUpTo(Paths, MaxBatchNotes) : Len(s) > 1}

batchFixed == <<runConfig, cur_size, last_attempted>>

ledgerData == <<processing_history, history_file, now>>

BatchIdle ==
    /\ valid_notes = <<>>
    /\ futures = EmptyDict
    /\ has_content = {}
    /\ approved_notes = {}
    /\ ledger_writers = {}
    /\ cards_added = 0
    /\ completed_late = {}

BatchStart ==
    /\ old_notes \in BatchNoteLists
    /\ max_cards \in 1..MaxBudget
    /\ APPROVE_NOTES \in BOOLEAN
    /\ APPROVE_CARDS \in BOOLEAN
    /\ rpc = "filter"
    /\ idx = 1
    /\ total_cards = 0
    /\ cur_size = 0
    /\ flashcards = <<>>
    /\ cards_to_add = <<>>
    /\ store = [p \in Paths |-> 0]
    /\ inserted = 0
    /\ rejected = 0
    /\ interrupted = FALSE
    /\ last_attempted = 0
    /\ reported = FALSE
    /\ BatchIdle

\* lines 302-315 for a note without approval prompt: the content is fetched; an
\* empty note is skipped, another one is valid (or waits for its prompt)
BatchFilterLoad ==
    /\ rpc = "filter"
    /\ idx <= Len(old_notes)
    /\ \E nonempty \in BOOLEAN :
          IF ~nonempty
          THEN /\ idx' = idx + 1
               /\ UNCHANGED <<rpc, has_content, valid_notes>>
          ELSE /\ has_content' = has_content \cup {idx}
               /\ IF APPROVE_NOTES
                  THEN /\ rpc' = "approve_note"
                       /\ UNCHANGED <<idx, valid_notes>>
                  ELSE /\ valid_notes' = Append(valid_notes, idx)
                       /\ idx' = idx + 1
                       /\ UNCHANGED rpc
    /\ UNCHANGED <<total_cards, flashcards, cards_to_add, store, inserted,
                   rejected, interrupted>>
    /\ UNCHANGED <<futures, approved_notes, ledger_writers, cards_added,
                   completed_late>>
    /\ UNCHANGED <<batchFixed, ledgerData>>
    /\ reported' = FALSE
    /\ UNCHANGED notBatch

\* line 305: obsidian.get_note_content raises; nothing catches it
BatchLoadRaises ==
    /\ rpc = "filter"
    /\ idx <= Len(old_notes)
    /\ rpc' = "raised"
    /\ UNCHANGED <<idx, total_cards, flashcards, cards_to_add, store, inserted,
                   rejected, interrupted>>
    /\ UNCHANGED batchVars
    /\ UNCHANGED <<batchFixed, ledgerData>>
    /\ UNCHANGED reported
    /\ UNCHANGED notBatch

\* lines 309-315: the user answers the note-approval prompt
BatchApproveNote ==
    /\ rpc = "approve_note"
    /\ \E answer \in BOOLEAN :
          /\ approved_notes' = IF answer
                               THEN approved_notes \cup {idx}
                               ELSE approved_notes
          /\ valid_notes' = IF KeepsApproved(answer)
                            THEN Append(valid_notes, idx)
                            ELSE valid_notes
    /\ idx' = idx + 1
    /\ rpc' = "filter"
    /\ UNCHANGED <<total_cards, flashcards, cards_to_add, store, inserted,
                   rejected, interrupted>>
    /\ UNCHANGED <<futures, has_content, ledger_writers, cards_added,
                   completed_late>>
    /\ UNCHANGED <<batchFixed, ledgerData>>
    /\ UNCHANGED reported
    /\ UNCHANGED notBatch

\* lines 313-314: KeyboardInterrupt at the note-approval prompt is raised again
\* and leaves process_flashcard_generation
BatchInterruptNote ==
    /\ rpc = "approve_note"
    /\ rpc' = "raised"
    /\ interrupted' = TRUE
    /\ UNCHANGED <<idx, total_cards, flashcards, cards_to_add, store, inserted,
                   rejected>>
    /\ UNCHANGED batchVars
    /\ UNCHANGED <<batchFixed, ledgerData>>
    /\ UNCHANGED reported
    /\ UNCHANGED notBatch

\* lines 317-319: no valid note; a warning about the run, return 0
BatchNoValidNotes ==
    /\ rpc = "filter"
    /\ idx > Len(old_notes)
    /\ valid_notes = <<>>
    /\ rpc' = "done"
    /\ UNCHANGED <<idx, total_cards, flashcards, cards_to_add, store, inserted,
                   rejected, interrupted>>
    /\ UNCHANGED batchVars
    /\ UNCHANGED <<batchFixed, ledgerData>>
    /\ reported' = TRUE
    /\ UNCHANGED notBatch

\* lines 322-326: a generation is submitted to the executor for every valid
\* note (at most BATCH_SIZE_LIMIT notes, so max_workers = 5 runs them at once)
BatchDispatch ==
    /\ rpc = "filter"
    /\ idx > Len(old_notes)
    /\ valid_notes # <<>>
    /\ futures' = [pos \in Range(valid_notes) |-> "running"]
    /\ rpc' = "collect"
    /\ UNCHANGED <<idx, total_cards, flashcards, cards_to_add, store, inserted,
                   rejected, interrupted>>
    /\ UNCHANGED <<valid_notes, has_content, approved_notes, ledger_writers,
                   cards_added, completed_late>>
    /\ UNCHANGED <<batchFixed, ledgerData>>
    /\ UNCHANGED reported
    /\ UNCHANGED notBatch

\* lines 12-38 in a worker thread: generate_flashcards_for_note of one note
\* returns or raises, and its future is done; the worker reads the note and
\* the ledger and writes neither
BatchWorkerCompletes ==
    /\ \E pos \in DOMAIN futures :
          /\ futures[pos] = "running"
          /\ futures' = [futures EXCEPT ![pos] = "completed"]
          /\ completed_late' = IF inserted >= max_cards
                               THEN completed_late \cup {pos}
                               ELSE completed_late
    /\ UNCHANGED <<rpc, idx, total_cards, flashcards, cards_to_add, store,
                   inserted, rejected, interrupted>>
    /\ UNCHANGED <<valid_notes, has_content, approved_notes, ledger_writers,
                   cards_added>>
    /\ UNCHANGED <<batchFixed, ledgerData>>
    /\ UNCHANGED reported
    /\ UNCHANGED notBatch

\* lines 329-337, 343-345 and 45-51: as_completed hands over a finished future;
\* future.result() raises what the generation raised (reported, continue),
\* or gives no cards (continue), or gives the cards
BatchCollect ==
    /\ rpc = "collect"
    /\ \E pos \in DOMAIN futures :
          /\ futures[pos] = "completed"
          /\ futures' = [futures EXCEPT ![pos] = "collected"]
          /\ idx' = pos
    /\ \E raised \in BOOLEAN, n \in 0..MaxBatchGen :
          IF raised \/ n = 0
          THEN /\ n = 0
               /\ reported' = TRUE
               /\ UNCHANGED <<rpc, flashcards, cards_to_add>>
          ELSE /\ flashcards' = PrefixSeq(n)
               /\ cards_to_add' = PrefixSeq(n)
               /\ rpc' = IF APPROVE_CARDS THEN "cards" ELSE "insert"
               /\ reported' = FALSE
    /\ UNCHANGED <<total_cards, store, inserted, rejected, interrupted>>
    /\ UNCHANGED <<valid_notes, has_content, approved_notes, ledger_writers,
                   cards_added, completed_late>>
    /\ UNCHANGED <<batchFixed, ledgerData>>
    /\ UNCHANGED notBatch

\* lines 52-67: the user approves some of the cards; none: return 0
BatchApproveCards ==
    /\ rpc = "cards"
    /\ \E approved_flashcards \in SubSeqs(flashcards) :
          IF approved_flashcards = <<>>
          THEN /\ rpc' = "collect"
               /\ reported' = TRUE
               /\ flashcards' = <<>>
               /\ cards_to_add' = <<>>
          ELSE /\ cards_to_add' = approved_flashcards
               /\ rpc' = "insert"
               /\ UNCHANGED <<flashcards, reported>>
    /\ UNCHANGED <<idx, total_cards, store, inserted, rejected, interrupted>>
    /\ UNCHANGED batchVars
    /\ UNCHANGED <<batchFixed, ledgerData>>
    /\ UNCHANGED notBatch

\* lines 59-60 and 343: KeyboardInterrupt at a card-approval prompt is raised
\* again; `except Exception` does not catch it and it leaves
\* process_flashcard_generation
BatchInterruptCards ==
    /\ rpc = "cards"
    /\ rpc' = "raised"
    /\ interrupted' = TRUE
    /\ UNCHANGED <<idx, total_cards, flashcards, cards_to_add, store, inserted,
                   rejected>>
    /\ UNCHANGED batchVars
    /\ UNCHANGED <<batchFixed, ledgerData>>
    /\ UNCHANGED reported
    /\ UNCHANGED notBatch

\* lines 69-82 up to the open() of save_processing_history: the store answers
\* item by item; when it accepted a card, record_flashcards_created updates
\* the ledger in memory and opens the history file; else return 0
BatchInsert ==
    /\ rpc = "insert"
    /\ \E result \in [DOMAIN cards_to_add -> BOOLEAN], note_size \in Sizes :
          LET note_path == old_notes[idx]
              accepted == {i \in DOMAIN result : result[i]}
              successful_cards == CountSuccessful(result)
          IN /\ store' = [store EXCEPT ![note_path] = @ + Cardinality(accepted)]
             /\ inserted' = inserted + Cardinality(accepted)
             /\ rejected' = rejected + Len(result) - Cardinality(accepted)
             /\ IF successful_cards > 0
                THEN /\ processing_history' =
                           RecordFlashcardsCreated(processing_history, note_path,
                                                   note_size, successful_cards,
                                                   now + 1)
                     /\ history_file' = TruncatedFile
                     /\ now' = now + 1
                     /\ ledger_writers' = ledger_writers \cup {idx}
                     /\ cards_added' = successful_cards
                     /\ rpc' = "save"
                     /\ UNCHANGED reported
                ELSE /\ rpc' = "collect"
                     /\ reported' = TRUE
                     /\ UNCHANGED <<processing_history, history_file, now,
                                    ledger_writers, cards_added>>
    /\ flashcards' = <<>>
    /\ cards_to_add' = <<>>
    /\ UNCHANGED <<idx, total_cards, interrupted>>
    /\ UNCHANGED <<valid_notes, futures, has_content, approved_notes,
                   completed_late>>
    /\ UNCHANGED batchFixed
    /\ UNCHANGED notBatch

\* config.py 147 and lines 79, 340-341: json.dump writes the ledger,
\* record_flashcards_created returns, total_cards += cards_added
BatchSave ==
    /\ rpc = "save"
    /\ history_file' = DumpedFile(processing_history)
    /\ ledger_writers' = ledger_writers \ {idx}
    /\ total_cards' = total_cards + cards_added
    /\ cards_added' = 0
    /\ rpc' = "collect"
    /\ UNCHANGED <<idx, flashcards, cards_to_add, store, inserted, rejected,
                   interrupted>>
    /\ UNCHANGED <<valid_notes, futures, has_content, approved_notes,
                   completed_late>>
    /\ UNCHANGED <<batchFixed, processing_history, now>>
    /\ UNCHANGED reported
    /\ UNCHANGED notBatch

\* lines 70 and 343-345: anki.add_flashcards raises; the error is reported and
\* the loop continues with the next finished future
BatchInsertRaises ==
    /\ rpc = "insert"
    /\ rpc' = "collect"
    /\ flashcards' = <<>>
    /\ cards_to_add' = <<>>
    /\ UNCHANGED <<idx, total_cards, store, inserted, rejected, interrupted>>
    /\ UNCHANGED batchVars
    /\ UNCHANGED <<batchFixed, ledgerData>>
    /\ reported' = TRUE
    /\ UNCHANGED notBatch

\* lines 329, 388-390: every future has been handed over; return total_cards
BatchAllCollected ==
    /\ rpc = "collect"
    /\ \A pos \in DOMAIN futures : futures[pos] = "collected"
    /\ rpc' = "done"
    /\ UNCHANGED <<idx, total_cards, flashcards, cards_to_add, store, inserted,
                   rejected, interrupted>>
    /\ UNCHANGED batchVars
    /\ UNCHANGED <<batchFixed, ledgerData>>
    /\ UNCHANGED reported
    /\ UNCHANGED notBatch

(***************************************************************************)
(* The command line entry point: main and the __main__ block of            *)
(* main_clean.py (180-217), with the connection tests and the return       *)
(* values of process_flashcard_generation (cli/processors.py 119-126,      *)
(* 388-390).  -1 stands for None.                                          *)
(***************************************************************************)
\* config.py DEFAULT_CONFIG: the defaults of MAX_CARDS and NOTES_TO_SAMPLE
MAX_CARDS == 6

NOTES_TO_SAMPLE == 3

\* x // 2 and max(1, .)
Max(a, b) == IF a >= b THEN a ELSE b

\* line 211: exit(result if result is not None else 0); the status is a byte
ExitStatus(r) == IF r = -1 THEN 0 ELSE r % 256

MainIdle ==
    /\ args_notes = 0
    /\ args_cards = -1
    /\ args_agent = FALSE
    /\ mpc = "args"
    /\ main_max_cards = -1
    /\ notes_to_sample = -1
    /\ outcome = "none"
    /\ main_result = -1
    /\ exit_status = -1

MainStart ==
    /\ args_notes \in 0..MaxNames
    /\ args_cards \in -1..MaxBudget
    /\ args_agent \in BOOLEAN
    /\ mpc = "args"
    /\ main_max_cards = -1
    /\ notes_to_sample = -1
    /\ outcome = "none"
    /\ main_result = -1
    /\ exit_status = -1

mainArgs == <<args_notes, args_cards, args_agent>>

\* lines 181-194: max_cards and notes_to_sample from the flags
MainAssign ==
    /\ mpc = "args"
    /\ IF args_notes > 0
       THEN /\ main_max_cards' = IF args_cards # -1 THEN args_cards
                                 ELSE args_notes * 2
            /\ UNCHANGED notes_to_sample
       ELSE IF args_cards # -1
            THEN /\ main_max_cards' = args_cards
                 /\ notes_to_sample' = Max(1, args_cards \div 2)
            ELSE /\ main_max_cards' = MAX_CARDS
                 /\ notes_to_sample' = NOTES_TO_SAMPLE
    /\ mpc' = "init"
    /\ UNCHANGED <<mainArgs, outcome, main_result, exit_status>>
    /\ UNCHANGED notMain

\* lines 199-205: the call of process_flashcard_generation evaluates max_cards
\* and notes_to_sample; a name that was never assigned raises
\* UnboundLocalError before the orchestrator is entered
MainCallOrchestrator ==
    /\ mpc = "init"
    /\ IF main_max_cards = -1 \/ notes_to_sample = -1
       THEN /\ outcome' = "unbound"
            /\ mpc' = "raised"
       ELSE /\ outcome' = "entered"
            /\ mpc' = "connect"
    /\ UNCHANGED <<mainArgs, main_max_cards, notes_to_sample, main_result,
                   exit_status>>
    /\ UNCHANGED notMain

\* processors.py 120-122: the Note Store does not answer; return 0
MainObsidianDown ==
    /\ mpc = "connect"
    /\ outcome' = "obsidian_down"
    /\ main_result' = 0
    /\ mpc' = "returned"
    /\ UNCHANGED <<mainArgs, main_max_cards, notes_to_sample, exit_status>>
    /\ UNCHANGED notMain

\* processors.py 124-126: the Flashcard Store does not answer; return 0
MainAnkiDown ==
    /\ mpc = "connect"
    /\ outcome' = "anki_down"
    /\ main_result' = 0
    /\ mpc' = "returned"
    /\ UNCHANGED <<mainArgs, main_max_cards, notes_to_sample, exit_status>>
    /\ UNCHANGED notMain

\* processors.py 367, 386, 390: the run completes, fully or after an
\* interrupt at a prompt, and returns total_cards
MainRunReturns ==
    /\ mpc = "connect"
    /\ \E total \in 0..MaxBudget, partial \in BOOLEAN :
          /\ main_result' = total
          /\ outcome' = IF partial THEN "partial" ELSE "completed"
    /\ mpc' = "returned"
    /\ UNCHANGED <<mainArgs, main_max_cards, notes_to_sample, exit_status>>
    /\ UNCHANGED notMain

\* an exception or a KeyboardInterrupt leaves process_flashcard_generation
MainRunRaises ==
    /\ mpc = "connect"
    /\ outcome' \in {"exception", "keyboard_interrupt"}
    /\ mpc' = "raised"
    /\ UNCHANGED <<mainArgs, main_max_cards, notes_to_sample, main_result,
                   exit_status>>
    /\ UNCHANGED notMain

\* lines 209-217: exit(result); exit(1) on KeyboardInterrupt; an exception
\* is raised again and the interpreter exits with status 1
MainExit ==
    /\ mpc \in {"returned", "raised"}
    /\ exit_status' = IF mpc = "returned" THEN ExitStatus(main_result) ELSE 1
    /\ mpc' = "exited"
    /\ UNCHANGED <<mainArgs, main_max_cards, notes_to_sample, outcome,
                   main_result>>
    /\ UNCHANGED notMain

(***************************************************************************)
(* Sampling weights: the tag schema loaded by ConfigManager (config.py     *)
(* 59-83), the density bias (config.py 168-186) and the sampling weight    *)
(* (config.py 188-210) of a note built from a query result                 *)
(* (api/obsidian.py 143-157, cli/models.py 24-41).  Weights are counted in *)
(* tenths (10 is 1.0); a bias is the fraction num / den.                   *)
(***************************************************************************)
\* the weights a schema file assigns, in tenths: 0.5 and 2.0
SchemaWeights == {5, 20}

\* the keys of a schema file: two tags and the reserved key
SchemaKeys == {"field/history", "field/math", "_default"}

\* the tag sets of a note; a note may carry a tag spelled like the reserved key
NoteTagSets == SUBSET {"field/history", "field/math", "_default"}

\* the sizes a query reports for a note
ReportedSizes == {0, 300, 4000}

\* DENSITY_BIAS_STRENGTH in tenths: 0.0, 0.5 (the default) and 1.0
Strengths == {0, 5, 10}

\* the path of the note that is weighted
WeightedPath == "a.md"

\* the tag schema file: absent, not JSON, JSON that is not an object, or an
\* object of weights
TagFiles ==
    {[kind |-> k, data |-> EmptyDict] : k \in {"missing", "not_json",
                                               "not_object"}}
    \cup {[kind |-> "object", data |-> d] :
            d \in UNION {[K -> SchemaWeights] : K \in SUBSET SchemaKeys}}

\* the ledger after n sessions of one card each for the weighted note
RECURSIVE LedgerAfterSessions(_)
LedgerAfterSessions(n) ==
    IF n = 0 THEN EmptyDict
    ELSE RecordFlashcardsCreated(LedgerAfterSessions(n - 1), WeightedPath,
                                 300, 1, n)

\* load_or_create_tag_schema (66-83) raises: json.load on a file that is not
\* JSON; the item assignment of "_default" on a value that is not a dict
LoadTagSchemaRaises(f, mode) ==
    \/ f.kind = "not_json"
    \/ f.kind = "not_object" /\ mode = "weighted"

\* load_or_create_tag_schema (66-83): the file's weights, with "_default"
\* 0.1 added in weighted mode when it is missing; {"_default": 1.0} without
\* a file
LoadTagSchema(f, mode) ==
    IF f.kind = "missing" THEN Put(EmptyDict, "_default", 10)
    ELSE IF mode = "weighted" /\ "_default" \notin DOMAIN f.data
         THEN Put(f.data, "_default", 1)
         ELSE f.data

\* max(...) of a non-empty set of weights
MaxOf(S) == CHOOSE m \in S : \A x \in S : x <= m

RECURSIVE SumOf(_)
SumOf(S) == IF S = {} THEN 0
            ELSE LET x == CHOOSE y \in S : TRUE IN x + SumOf(S \ {x})

\* the tags of the note that are schema keys other than "_default" (197)
RelevantTags(tags, tw) == {t \in tags : t \in DOMAIN tw /\ t # "_default"}

TagWeightSum(tags, tw, mode) ==
    IF mode = "weighted" /\ tw # EmptyDict
    THEN IF RelevantTags(tags, tw) = {}
         THEN IF "_default" \in DOMAIN tw THEN tw["_default"] ELSE 10
         ELSE SumOf({tw[t] : t \in RelevantTags(tags, tw)})
    ELSE 10

\* get_sampling_weight_for_note (192-202): the tag weight
TagWeight(tags, tw, mode) ==
    IF mode = "weighted" /\ tw # EmptyDict
    THEN IF RelevantTags(tags, tw) = {}
         THEN IF "_default" \in DOMAIN tw THEN tw["_default"] ELSE 10
         ELSE MaxOf({tw[t] : t \in RelevantTags(tags, tw)})
    ELSE 10

DensityBiasNoFloor(h, note_path, note_size, strength) ==
    IF note_path \notin DOMAIN h THEN [num |-> 1, den |-> 1]
    ELSE LET size == IF note_size = 0 THEN 1 ELSE note_size
             total == h[note_path].total_flashcards
         IN [num |-> 10 * size - 1000 * total * strength, den |-> 10 * size]

\* get_density_bias_for_note (168-186):
\* max(0.1, 1.0 - (total_flashcards / note_size) * 1000 * strength), with
\* note_size 0 taken as 1, and 1.0 for a path without an entry; here over
\* the common denominator 10 * note_size
DensityBias(h, note_path, note_size, strength) ==
    IF note_path \notin DOMAIN h THEN [num |-> 1, den |-> 1]
    ELSE LET size == IF note_size = 0 THEN 1 ELSE note_size
             total == h[note_path].total_flashcards
         IN [num |-> Max(size, 10 * size - 1000 * total * strength),
             den |-> 10 * size]

\* Note.size (cli/models.py 24-27): len(self.content); the property takes
\* precedence over the 'size' that _convert_dict_results_to_notes stores in
\* note.__dict__ (api/obsidian.py 155), and the content of a note built
\* from a query result is ''
NoteSize(stored_size, loaded) == IF loaded THEN stored_size ELSE 0

WeightIdle ==
    /\ tag_file = [kind |-> "missing", data |-> EmptyDict]
    /\ SAMPLING_MODE = "weighted"
    /\ DENSITY_BIAS_STRENGTH = 5
    /\ wpc = "init"
    /\ tag_weights = EmptyDict
    /\ note_tags = {}
    /\ reported_size = 0
    /\ content_loaded = FALSE
    /\ tag_weight = 0
    /\ density_bias = [num |-> 0, den |-> 1]
    /\ final_weight = [num |-> 0, den |-> 1]

WeightStart ==
    /\ tag_file \in TagFiles
    /\ SAMPLING_MODE \in {"weighted", "uniform"}
    /\ DENSITY_BIAS_STRENGTH \in Strengths
    /\ wpc = "init"
    /\ tag_weights = EmptyDict
    /\ note_tags \in NoteTagSets
    /\ reported_size \in ReportedSizes
    /\ content_loaded \in BOOLEAN
    /\ tag_weight = 0
    /\ density_bias = [num |-> 0, den |-> 1]
    /\ final_weight = [num |-> 0, den |-> 1]

weightInputs == <<tag_file, SAMPLING_MODE, DENSITY_BIAS_STRENGTH, note_tags,
                  reported_size, content_loaded>>

\* ConfigManager.__init__ (59-64): the tag schema is loaded; an exception of
\* load_or_create_tag_schema leaves no ConfigManager
WeightConstruct ==
    /\ wpc = "init"
    /\ IF LoadTagSchemaRaises(tag_file, SAMPLING_MODE)
       THEN /\ wpc' = "raised"
            /\ UNCHANGED tag_weights
       ELSE /\ wpc' = "constructed"
            /\ tag_weights' = LoadTagSchema(tag_file, SAMPLING_MODE)
    /\ UNCHANGED <<weightInputs, tag_weight, density_bias, final_weight>>
    /\ UNCHANGED notWeight

\* get_sampling_weight_for_note (188-210) for the note, with note.size as
\* the note size: tag weight, density bias and their product
WeightCompute ==
    /\ wpc = "constructed"
    /\ LET tw == TagWeight(note_tags, tag_weights, SAMPLING_MODE)
           db == DensityBias(processing_history, WeightedPath,
                             NoteSize(reported_size, content_loaded),
                             DENSITY_BIAS_STRENGTH)
       IN /\ tag_weight' = tw
          /\ density_bias' = db
          /\ final_weight' = [num |-> tw * db.num, den |-> 10 * db.den]
    /\ wpc' = "done"
    /\ UNCHANGED <<weightInputs, tag_weights>>
    /\ UNCHANGED notWeight

(***************************************************************************)
(* The summary of a query's results for the oracle (ai/client.py 392-447). *)
(* A summary is its kind ("none", "detailed", "count"), the count it       *)
(* names, the notes it lists and whether it carries the encouragement to   *)
(* finalize.                                                               *)
(***************************************************************************)
\* line 425: result sets up to this size are listed note by note
DetailLimit == 20

\* line 438: result sets up to this size carry the encouragement
EncourageLimit == 15

EncouragesUpToDetail(n) == n <= DetailLimit

\* line 438: if len(results) <= 15
Encourages(n) == n <= EncourageLimit

\* lines 400-417: the notes the filters keep, in the order of the query
FilteredResults(hits, dropped) ==
    [i \in 1..(IF hits > dropped THEN hits - dropped ELSE 0) |-> dropped + i]

\* lines 423-442: result_summary from the post-filter results
ResultSummary(res) ==
    IF Len(res) = 0
    THEN [kind |-> "none", count |-> 0, listed |-> <<>>, encourage |-> FALSE]
    ELSE IF Len(res) <= DetailLimit
         THEN [kind |-> "detailed", count |-> Len(res),
               listed |-> SubSeq(res, 1, IF Len(res) <= 20 THEN Len(res)
                                         ELSE 20),
               encourage |-> Encourages(Len(res))]
         ELSE [kind |-> "count", count |-> Len(res), listed |-> <<>>,
               encourage |-> FALSE]

NoSummary == [kind |-> "unset", count |-> 0, listed |-> <<>>,
              encourage |-> FALSE]

SummaryIdle ==
    /\ query_hits = 0
    /\ outside = 0
    /\ sumpc = "query"
    /\ filtered_results = <<>>
    /\ result_summary = NoSummary

SummaryStart ==
    /\ query_hits \in 0..MaxHits
    /\ outside \in 0..MaxOutside
    /\ sumpc = "query"
    /\ filtered_results = <<>>
    /\ result_summary = NoSummary

\* lines 392-447: the results are filtered and summarised, and the summary
\* is appended to the tool results
SummaryBuild ==
    /\ sumpc = "query"
    /\ filtered_results' = FilteredResults(query_hits, outside)
    /\ result_summary' = ResultSummary(filtered_results')
    /\ sumpc' = "done"
    /\ UNCHANGED <<query_hits, outside>>
    /\ UNCHANGED notSummary

(***************************************************************************)
(* The fronts recorded for a session (cli/processors.py 69-82): the cards  *)
(* handed to the store, the store's answer for each, and the arguments of  *)
(* record_flashcards_created.                                              *)
(***************************************************************************)
\* the front texts of the generated cards
CardFronts == {"q1", "q2", "q3"}

\* cards_to_add: one to MaxInsert cards with different fronts
CardLists ==
    {s \in SeqsUpTo(CardFronts, MaxInsert) :
        s # <<>> /\ \A i, j \in 1..Len(s) : i # j => s[i] # s[j]}

\* line 71: len([r for r in result if r is not None])
SuccessfulCards(res) == Cardinality({i \in 1..Len(res) : res[i]})

\* line 77: [fc.front for fc in cards_to_add[:successful_cards]]
FrontsOfPrefix(cards, n) == SubSeq(cards, 1, n)

FrontsIdle ==
    /\ to_add = <<>>
    /\ add_result = <<>>
    /\ fpc = "inserted"
    /\ recorded_count = -1
    /\ flashcard_fronts = <<>>

FrontsStart ==
    /\ to_add \in CardLists
    /\ add_result \in [1..Len(to_add) -> BOOLEAN]
    /\ fpc = "inserted"
    /\ recorded_count = -1
    /\ flashcard_fronts = <<>>

\* lines 71-79: at least one card was accepted; the count and the fronts are
\* handed to record_flashcards_created
FrontsRecord ==
    /\ fpc = "inserted"
    /\ SuccessfulCards(add_result) > 0
    /\ recorded_count' = SuccessfulCards(add_result)
    /\ flashcard_fronts' = FrontsOfPrefix(to_add, SuccessfulCards(add_result))
    /\ fpc' = "recorded"
    /\ UNCHANGED <<to_add, add_result>>
    /\ UNCHANGED notFronts

\* lines 80-82: no card was accepted; nothing is recorded
FrontsNoneAccepted ==
    /\ fpc = "inserted"
    /\ SuccessfulCards(add_result) = 0
    /\ fpc' = "failed"
    /\ UNCHANGED <<to_add, add_result, recorded_count, flashcard_fronts>>
    /\ UNCHANGED notFronts

(***************************************************************************)
(* Targeted generation: generate_flashcards_from_note_and_query            *)
(* (ai/client.py 162-223).  The prompt is its parts: the number of cards   *)
(* asked for, and whether the deduplication and schema contexts are in it. *)
(***************************************************************************)
UnboundPrompt == [bound |-> FALSE, cards |-> 0, dedup |-> FALSE,
                  schema |-> FALSE]

\* no answer yet
NoReply == [kind |-> "none", cards |-> 0]

\* the answers of the oracle: an exception, a response without a tool_use
\* block, or a create_flashcards call with 0 to MaxGen cards
OracleReplies ==
    {[kind |-> "raises", cards |-> 0], [kind |-> "no_tool", cards |-> 0]}
    \cup {[kind |-> "cards", cards |-> n] : n \in 0..MaxGen}

\* line 165: target_cards if target_cards else 2
CardsToCreate(t) == IF t # 0 THEN t ELSE 2

QueryGenIdle ==
    /\ previous_fronts = 0
    /\ deck_examples = FALSE
    /\ target_cards = 0
    /\ qpc = "entry"
    /\ user_prompt = UnboundPrompt
    /\ request_sent = FALSE
    /\ oracle_reply = NoReply
    /\ generated = -1

QueryGenStart ==
    /\ previous_fronts \in 0..MaxPrevious
    /\ deck_examples \in BOOLEAN
    /\ target_cards \in 0..MaxBudget
    /\ qpc = "entry"
    /\ user_prompt = UnboundPrompt
    /\ request_sent = FALSE
    /\ oracle_reply = NoReply
    /\ generated = -1

queryGenArgs == <<previous_fronts, deck_examples, target_cards>>

\* lines 165-188: user_prompt is assigned inside `if previous_fronts:` only
QueryGenBuildPrompt ==
    /\ qpc = "entry"
    /\ user_prompt' =
          IF previous_fronts > 0
          THEN [bound |-> TRUE, cards |-> CardsToCreate(target_cards),
                dedup |-> TRUE, schema |-> deck_examples]
          ELSE UnboundPrompt
    /\ qpc' = "try"
    /\ UNCHANGED <<queryGenArgs, request_sent, oracle_reply, generated>>
    /\ UNCHANGED notQueryGen

\* lines 191-198: the request is sent with user_prompt as its content
QueryGenSend ==
    /\ qpc = "try"
    /\ user_prompt.bound
    /\ request_sent' = TRUE
    /\ qpc' = "sent"
    /\ UNCHANGED <<queryGenArgs, user_prompt, oracle_reply, generated>>
    /\ UNCHANGED notQueryGen

\* lines 195, 221-223: evaluating the unbound user_prompt raises
\* UnboundLocalError before messages.create is called; the handler prints
\* the error and returns []
QueryGenPromptUnbound ==
    /\ qpc = "try"
    /\ ~user_prompt.bound
    /\ generated' = 0
    /\ qpc' = "returned"
    /\ UNCHANGED <<queryGenArgs, user_prompt, request_sent, oracle_reply>>
    /\ UNCHANGED notQueryGen

\* lines 200-223: the cards of the tool_use block are returned; [] when the
\* response has no such block or the call raised
QueryGenOracleAnswers ==
    /\ qpc = "sent"
    /\ \E r \in OracleReplies :
          /\ oracle_reply' = r
          /\ generated' = IF r.kind = "cards" THEN r.cards ELSE 0
    /\ qpc' = "returned"
    /\ UNCHANGED <<queryGenArgs, user_prompt, request_sent>>
    /\ UNCHANGED notQueryGen

\* every component outside the five above is at rest
ExtrasIdle ==
    MainIdle /\ WeightIdle /\ SummaryIdle /\ FrontsIdle /\ QueryGenIdle

\* the ledger, sampler, agent and both runs are at rest
CoreIdle == LedgerStart /\ SamplerIdle /\ AgentIdle /\ RunIdle /\ BatchIdle

(***************************************************************************)
(* Specifications.                                                         *)
(***************************************************************************)
LedgerInit == LedgerStart /\ SamplerIdle /\ AgentIdle /\ RunIdle /\ BatchIdle
    /\ ExtrasIdle

LedgerNext ==
    \/ RecordCall
    \/ SaveOpen
    \/ SaveDump
    \/ Crash

LedgerSpec == LedgerInit /\ [][LedgerNext]_vars

SamplerInit == SamplerStart /\ LedgerStart /\ AgentIdle /\ RunIdle /\ BatchIdle
    /\ ExtrasIdle

SamplerNext ==
    \/ SampleNoNotes
    \/ SampleAll
    \/ SampleWeighted
    \/ SampleWeightedError
    \/ SampleUniform

SamplerSpec == SamplerInit /\ [][SamplerNext]_vars

AgentInit == AgentStart /\ LedgerStart /\ SamplerIdle /\ RunIdle /\ BatchIdle
    /\ ExtrasIdle

AgentNext ==
    \/ OracleCallReturns
    \/ OracleCallRaises
    \/ ExecuteQueryReturns
    \/ ExecuteQueryRaises
    \/ FinalizeSelection
    \/ FinalizeUnbound
    \/ TextBlock
    \/ EndTurnFinalized
    \/ EndTurnContinue
    \/ LoopExhausted
    \/ AfterLoop

AgentSpec == AgentInit /\ [][AgentNext]_vars

RunInit == RunStart /\ LedgerStart /\ SamplerIdle /\ AgentIdle /\ BatchIdle
    /\ ExtrasIdle

RunNext ==
    \/ SeqListDone
    \/ SeqBudgetReached
    \/ SeqLoadContent
    \/ SeqLoadRaises
    \/ SeqApproveNote
    \/ SeqInterrupt
    \/ SeqGenerate
    \/ SeqApproveCards
    \/ SeqInsert
    \/ SeqInsertRaises

RunSpec == RunInit /\ [][RunNext]_vars

BatchInit ==
    BatchStart /\ LedgerStart /\ SamplerIdle /\ AgentIdle /\ ExtrasIdle

BatchNext ==
    \/ BatchFilterLoad
    \/ BatchLoadRaises
    \/ BatchApproveNote
    \/ BatchInterruptNote
    \/ BatchNoValidNotes
    \/ BatchDispatch
    \/ BatchWorkerCompletes
    \/ BatchCollect
    \/ BatchApproveCards
    \/ BatchInterruptCards
    \/ BatchInsert
    \/ BatchSave
    \/ BatchInsertRaises
    \/ BatchAllCollected

BatchSpec == BatchInit /\ [][BatchNext]_vars

MainInit ==
    /\ MainStart /\ CoreIdle
    /\ WeightIdle /\ SummaryIdle /\ FrontsIdle /\ QueryGenIdle

MainNext ==
    \/ MainAssign
    \/ MainCallOrchestrator
    \/ MainObsidianDown
    \/ MainAnkiDown
    \/ MainRunReturns
    \/ MainRunRaises
    \/ MainExit

MainSpec == MainInit /\ [][MainNext]_vars

WeightInit ==
    /\ WeightStart
    /\ processing_history \in {LedgerAfterSessions(n) : n \in 0..MaxSessions}
    /\ history_file = DumpedFile(processing_history)
    /\ lpc = "idle"
    /\ now = 0
    /\ inflight = NoCall
    /\ returned = <<>>
    /\ SamplerIdle /\ AgentIdle /\ RunIdle /\ BatchIdle
    /\ MainIdle /\ SummaryIdle /\ FrontsIdle /\ QueryGenIdle

WeightNext ==
    \/ WeightConstruct
    \/ WeightCompute

WeightSpec == WeightInit /\ [][WeightNext]_vars

SummaryInit ==
    /\ SummaryStart
    /\ CoreIdle /\ MainIdle /\ WeightIdle /\ FrontsIdle /\ QueryGenIdle

SummaryNext == SummaryBuild

SummarySpec == SummaryInit /\ [][SummaryNext]_vars

FrontsInit ==
    /\ FrontsStart
    /\ CoreIdle /\ MainIdle /\ WeightIdle /\ SummaryIdle /\ QueryGenIdle

FrontsNext ==
    \/ FrontsRecord
    \/ FrontsNoneAccepted

FrontsSpec == FrontsInit /\ [][FrontsNext]_vars

QueryGenInit ==
    /\ QueryGenStart
    /\ CoreIdle /\ MainIdle /\ WeightIdle /\ SummaryIdle /\ FrontsIdle

QueryGenNext ==
    \/ QueryGenBuildPrompt
    \/ QueryGenSend
    \/ QueryGenPromptUnbound
    \/ QueryGenOracleAnswers

QueryGenSpec == QueryGenInit /\ [][QueryGenNext]_vars

(***************************************************************************)
(* Properties.                                                             *)
(***************************************************************************)
\* C1: weighted sampling of k notes from a candidate list with k < |candidates|
\* returns exactly k notes with pairwise distinct paths, all of them candidates.
C1_WeightedSampleDistinct ==
    spc = "weighted" =>
        /\ Len(sampled) = limit
        /\ Range(sampled) \subseteq Range(all_notes)
        /\ Distinct(sampled)

\* C4: a record_flashcards_created(path, size, count) call adds exactly count to
\* the path's total_flashcards, appends exactly one session record to the path's
\* sessions and keeps the earlier ones, and changes no other path's entry.
C4_RecordFrame ==
    [][(lpc = "idle" /\ lpc' = "open") =>
         LET p == inflight'.path
             c == inflight'.count
             h == processing_history
             g == processing_history'
             oldTotal == IF p \in DOMAIN h THEN h[p].total_flashcards ELSE 0
             oldSessions == IF p \in DOMAIN h THEN h[p].sessions ELSE <<>>
         IN /\ DOMAIN g = (DOMAIN h) \cup {p}
            /\ g[p].total_flashcards = oldTotal + c
            /\ Len(g[p].sessions) = Len(oldSessions) + 1
            /\ SubSeq(g[p].sessions, 1, Len(oldSessions)) = oldSessions
            /\ g[p].sessions[Len(g[p].sessions)].flashcards = c
            /\ \A q \in (DOMAIN h) \ {p} : g[q] = h[q]]_vars

\* a call has just updated a path that already had two sessions, while the
\* other path has an entry too
C4_Witness ==
    /\ lpc = "open"
    /\ Len(processing_history[inflight.path].sessions) >= 2
    /\ \E q \in DOMAIN processing_history : q # inflight.path

\* C5: from an empty ledger, after any sequence of record_flashcards_created
\* calls, every path's total_flashcards is the sum of the flashcards of its
\* session records.
C5_TotalIsSumOfSessions ==
    \A p \in DOMAIN processing_history :
        processing_history[p].total_flashcards =
            SumFlashcards(processing_history[p].sessions)

\* a path with several sessions of different counts
C5_Witness ==
    \E p \in DOMAIN processing_history :
        /\ Len(processing_history[p].sessions) >= 2
        /\ processing_history[p].sessions[1].flashcards #
              processing_history[p].sessions[2].flashcards

\* the insertion r is in the persisted history file
Persisted(r) ==
    /\ history_file.valid
    /\ r.path \in DOMAIN history_file.data
    /\ \E j \in DOMAIN history_file.data[r.path].sessions :
          history_file.data[r.path].sessions[j] =
              [date |-> r.date, flashcards |-> r.count]

\* C6: at every point, a crash at any step of a ledger write included, the
\* history file holds every insertion whose record_flashcards_created call has
\* returned.
C6_ReturnedInsertionsPersisted ==
    \A i \in DOMAIN returned : Persisted(returned[i])

\* what is left of the loop: the turns not yet started, the blocks of the
\* current response, the code after the loop
AgentVariant ==
    CASE apc = "done" -> 0
      [] apc = "post" -> 1
      [] apc = "plan" -> 2 + (max_turns - turn) * (MaxBlocks + 2)
      [] apc = "blocks" -> 3 + (max_turns - turn) * (MaxBlocks + 2) + blocks_left

\* C2: find_notes_with_agent always terminates (every step uses up some of a
\* bounded budget, and the agent is never stuck before it returns) and makes at
\* most max_turns (8) oracle calls; when the oracle never invokes finalize and
\* never fails, it makes exactly 8 oracle calls and then returns.
C2_TurnBudget ==
    /\ [](oracle_calls <= max_turns)
    /\ []((apc = "done" /\ ~finalize_seen /\ ~oracle_failed)
             => oracle_calls = max_turns)
    /\ [](AgentVariant >= 0)
    /\ [](apc = "done" \/ ENABLED AgentNext)
    /\ [][AgentVariant' < AgentVariant]_vars

\* the agent has returned after a run without finalize and without a failure
C2_Witness ==
    /\ apc = "done"
    /\ ~finalize_seen
    /\ ~oracle_failed
    /\ oracle_calls = max_turns
    /\ last_query.ran

\* the turn budget was used up and finalize was never invoked
ExhaustedWithoutFinalize ==
    /\ apc = "done"
    /\ ~finalize_seen
    /\ ~oracle_failed

\* C8: when the turn budget is exhausted without a finalize invocation, the
\* selection is the result set of the last executed query if that set holds 1 to
\* 25 notes, and is empty if it holds more than 25 notes or none.  (A query that
\* raised has no result set: the last executed query is the last that returned.)
C8_AutoPromote ==
    ExhaustedWithoutFinalize =>
        IF 1 <= Len(last_result_set) /\ Len(last_result_set) <= AutoPromoteLimit
        THEN selected_notes = last_result_set
        ELSE selected_notes = <<>>

\* the budget ran out with a last result of exactly 25 notes, which was selected
C8_Witness ==
    /\ ExhaustedWithoutFinalize
    /\ Len(last_result_set) = AutoPromoteLimit
    /\ selected_notes = last_result_set

\* C9: once the oracle invokes finalize, no further oracle call is made and the
\* selection contains only notes named in the invocation; auto-promotion of the
\* last query result happens only when all turns elapse without a finalize.
C9_FinalizeEndsLoop ==
    /\ finalize_seen => oracle_calls = calls_at_finalize
    /\ (apc = "done" /\ finalize_seen) =>
           Range(selected_notes) \subseteq finalize_named
    /\ promoted => (~finalize_seen /\ turn = max_turns)

\* C10: every note of a finalized selection is in the result set of the most
\* recent execute-query invocation before the finalize invocation; an earlier
\* query's result set is never used.
C10_FinalizedFromLatestQuery ==
    (apc = "done" /\ finalize_seen /\ ~promoted) =>
        Range(selected_notes) \subseteq Range(query_at_finalize.set)

\* C3: in sequential mode the number of cards inserted into the Flashcard Store
\* during one run never exceeds the card budget max_cards.
C3_InsertedWithinBudget == inserted <= max_cards

\* the run is over: it returned or an exception left it
RunOver == rpc \in {"done", "raised"}

\* C7: from an empty ledger, after any run every path's total_flashcards is the
\* number of that note's cards the Flashcard Store accepted, and a path with no
\* accepted card has no ledger entry.
C7_LedgerMatchesStore ==
    RunOver =>
        \A p \in Paths :
            IF store[p] > 0
            THEN /\ p \in DOMAIN processing_history
                 /\ processing_history[p].total_flashcards = store[p]
            ELSE p \notin DOMAIN processing_history

\* a finished run in which the store rejected an item, one note had cards
\* accepted in two insertions and another note of the list had none accepted
C7_Witness ==
    /\ rpc = "done"
    /\ rejected > 0
    /\ \E p, q \in Paths :
          /\ store[p] > 0
          /\ Len(processing_history[p].sessions) >= 2
          /\ store[q] = 0
          /\ q \in Range(old_notes)

\* the note carries no excluded tag and lies in an allowed folder, if any
PassesPostFilters(n) ==
    /\ NoteTags(n) \cap excluded_tags = {}
    /\ effective_folders # {} =>
           \E folder \in effective_folders :
               /\ Len(folder) <= Len(NoteDir(n))
               /\ \A i \in 1..Len(folder) : NoteDir(n)[i] = folder[i]

C13_AbortOnlyOnOracleFailure ==
    /\ [][(apc # "post" /\ apc' = "done") => oracle_failed']_vars
    /\ [](oracle_failed => apc = "done")

\* C12: when a structured query raises, the error message becomes that tool
\* call's result and is in the messages the next oracle call sees; the step
\* does not abort the agent, and when the response holds no finalize the next
\* planning turn is taken if turns remain.
C12_QueryErrorFedBack ==
    /\ [](raised_in_turn => "error" \in Range(tool_results))
    /\ []((raised_in_turn /\ apc = "plan") => "error" \in Range(messages))
    /\ [][(raised_in_turn' /\ ~raised_in_turn)
              => (apc' = "blocks" /\ ~oracle_failed')]_vars
    /\ []((raised_in_turn /\ apc = "blocks" /\ blocks_left = 0
              /\ ~final_selection_set) => ENABLED EndTurnContinue)
    /\ []((raised_in_turn /\ apc = "plan" /\ turn < max_turns)
              => ENABLED OracleCallReturns)

\* the oracle made another call after a turn in which its only query raised
C12_Witness ==
    /\ apc = "blocks"
    /\ turn = 2
    /\ last_query.ran
    /\ ~last_query.ok
    /\ ~results_bound
    /\ ~raised_in_turn
    /\ ~oracle_failed

\* C14: in sequential mode the notes are attempted one after the other in the
\* order of the input list, and once the inserted-card count has reached the
\* budget no later note has its content loaded, a generation request issued or
\* cards inserted.
C14_SequentialOrderAndStop ==
    /\ [][last_attempted' # last_attempted =>
             (/\ last_attempted' = last_attempted + 1
              /\ last_attempted' = idx
              /\ inserted < max_cards)]_vars
    /\ [][(rpc = "generate" \/ rpc = "insert") =>
             (idx = last_attempted /\ inserted < max_cards)]_vars
    /\ [][inserted' # inserted => rpc = "insert"]_vars
    /\ []((rpc = "loop" /\ idx <= Len(old_notes) /\ inserted >= max_cards)
             => (ENABLED SeqBudgetReached /\ ~ENABLED SeqLoadContent))

\* the run stopped on the budget with notes of the list left unattempted
C14_Witness ==
    /\ rpc = "done"
    /\ ~interrupted
    /\ inserted >= max_cards
    /\ last_attempted >= 2
    /\ last_attempted < Len(old_notes)

\* C15: in batched mode, once the inserted-card count has reached max_cards, the
\* cards of a note whose generation completes later are not inserted.
C15_BatchBudgetEnforced ==
    [][inserted' > inserted => idx \notin completed_late]_vars

\* C16: in batched mode with note approval enabled, every note-approval prompt
\* is answered before the first generation request is dispatched, and a
\* generation is dispatched only for notes that were approved and have content.
C16_ApprovalBeforeDispatch ==
    APPROVE_NOTES =>
        /\ rpc = "approve_note" => futures = EmptyDict
        /\ futures # EmptyDict => idx > Len(old_notes) \/ rpc # "filter"
        /\ \A pos \in DOMAIN futures :
               pos \in has_content /\ pos \in approved_notes
        /\ futures # EmptyDict =>
               DOMAIN futures = has_content \cap approved_notes

\* generations were dispatched while a note with content had been turned down
C16_Witness ==
    /\ APPROVE_NOTES
    /\ futures # EmptyDict
    /\ \E pos \in has_content : pos \notin approved_notes
    /\ \E pos \in DOMAIN futures : futures[pos] = "completed"

\* the ledger holds, for every path, the cards the store accepted, each
\* insertion as a session of its own, and the file on disk is the ledger
BatchLedgerComplete ==
    /\ history_file = DumpedFile(processing_history)
    /\ total_cards = inserted
    /\ \A p \in Paths :
          IF store[p] > 0
          THEN /\ p \in DOMAIN processing_history
               /\ processing_history[p].total_flashcards = store[p]
               /\ SumFlashcards(processing_history[p].sessions) = store[p]
          ELSE p \notin DOMAIN processing_history

\* a worker thread finishes a generation in this step
WorkerStep ==
    \E pos \in DOMAIN futures :
        futures[pos] = "running" /\ futures'[pos] = "completed"

\* C17: in batched mode only the generation runs in worker threads: a worker's
\* step leaves the store and the ledger alone, card approval, insertion and the
\* ledger update are done for one note at a time, two ledger updates never
\* overlap, and no update is lost whatever the order of completion.
C17_SingleLedgerWriter ==
    /\ [](Cardinality(ledger_writers) <= 1)
    /\ [](ledger_writers # {} => (rpc = "save" /\ ledger_writers = {idx}))
    /\ [][WorkerStep => UNCHANGED <<processing_history, history_file, store,
                                    inserted, total_cards, rpc, idx,
                                    cards_to_add>>]_vars
    /\ [](rpc = "done" => BatchLedgerComplete)

\* a batched run that recorded two insertions for one path
C17_Witness ==
    /\ rpc = "done"
    /\ \E p \in Paths :
          /\ p \in DOMAIN processing_history
          /\ Len(processing_history[p].sessions) >= 2
    /\ futures # EmptyDict
    /\ inserted >= 2

\* C19: when the user interrupts a note-approval or card-approval prompt,
\* process_flashcard_generation returns the number of cards inserted so far
\* (it does not let the interrupt through), and the cards already inserted keep
\* their ledger entries.
C19_InterruptReturnsCount ==
    interrupted => (rpc = "done" /\ BatchLedgerComplete)

\* C18: within one run, started from an empty ledger, each note path enters the
\* generate, insert and ledger-update pipeline at most once, however the note
\* set was resolved: no path gets a second insertion or a second session.
C18_PathProcessedOnce ==
    \A p \in DOMAIN processing_history :
        Len(processing_history[p].sessions) <= 1

\* C20: a Flashcard Store failure while inserting one note's cards (every item
\* rejected, or the insertion request raising) does not end the run: it goes on
\* with the next note of the list.
C20_InsertFailureContinues ==
    [][(rpc = "insert" /\ idx < Len(old_notes) /\ inserted' = inserted)
          => (rpc' = "loop" /\ idx' = idx + 1)]_vars

\* C21: every note that is skipped because its content is empty or because the
\* oracle returned no cards produces a user-visible warning: the step that
\* skips the note prints one.
C21_SkipsAreReported ==
    [][(\/ (rpc = "loop" /\ rpc' = "loop" /\ idx' = idx + 1)
        \/ (rpc = "generate" /\ rpc' = "loop"))
          => reported']_vars

\* C22: the exit status is 0 whenever a run completes, fully or partially and
\* whatever the number of cards inserted, and is not 0 when the startup
\* connectivity check of the Note Store or of the Flashcard Store fails.
C22_ExitStatus ==
    mpc = "exited" =>
        /\ outcome \in {"completed", "partial"} => exit_status = 0
        /\ outcome \in {"obsidian_down", "anki_down"} => exit_status # 0

\* C30: for every combination of --notes, --cards and --agent, main reaches
\* process_flashcard_generation with max_cards and notes_to_sample assigned.
C30_OrchestratorEntered ==
    mpc \notin {"args", "init"} =>
        /\ outcome # "unbound"
        /\ main_max_cards # -1
        /\ notes_to_sample # -1

\* C23: a tag schema file that is missing or malformed never aborts the
\* construction of the ConfigManager, and every note then gets the tag
\* weight 1.0.
C23_TagFileNeverAborts ==
    tag_file.kind \in {"missing", "not_json", "not_object"} =>
        /\ wpc # "raised"
        /\ wpc = "done" => tag_weight = 10

\* C25: in weighted mode the tag weight of a note is the largest schema
\* weight among its tags that are schema keys other than "_default" (not
\* their sum or mean), and the weight of "_default" when it has no such tag.
C25_TagWeightIsMax ==
    (wpc = "done" /\ SAMPLING_MODE = "weighted") =>
        LET rel == {t \in note_tags :
                      t \in DOMAIN tag_weights /\ t # "_default"}
        IN IF rel = {}
           THEN tag_weight = tag_weights["_default"]
           ELSE /\ \E t \in rel : tag_weight = tag_weights[t]
                /\ \A t \in rel : tag_weights[t] <= tag_weight

\* a note with two schema tags of different weights has been weighted with
\* the larger one
C25_Witness ==
    /\ wpc = "done"
    /\ SAMPLING_MODE = "weighted"
    /\ {"field/history", "field/math"} \subseteq note_tags
    /\ {"field/history", "field/math"} \subseteq DOMAIN tag_weights
    /\ tag_weights["field/history"] = 5
    /\ tag_weights["field/math"] = 20
    /\ tag_weight = 20

\* C26: for every ledger, note size >= 0 and strength in [0, 1] the density
\* bias is at least 0.1, and it is exactly 1.0 for a path without a ledger
\* entry.
C26_DensityBiasFloor ==
    wpc = "done" =>
        /\ density_bias.den > 0
        /\ 10 * density_bias.num >= density_bias.den
        /\ WeightedPath \notin DOMAIN processing_history =>
               density_bias.num = density_bias.den

\* a note of size 0 with recorded cards has been given the bias 0.1 under
\* strength 1.0
C26_Witness ==
    /\ wpc = "done"
    /\ WeightedPath \in DOMAIN processing_history
    /\ NoteSize(reported_size, content_loaded) = 0
    /\ DENSITY_BIAS_STRENGTH = 10
    /\ 10 * density_bias.num = density_bias.den

\* C28: for a note built from a query result, its content not loaded, the
\* density bias is computed from the size the query reported for it.
C28_BiasFromReportedSize ==
    (wpc = "done" /\ ~content_loaded) =>
        LET expected == DensityBias(processing_history, WeightedPath,
                                    reported_size, DENSITY_BIAS_STRENGTH)
        IN density_bias.num * expected.den = expected.num * density_bias.den

\* C24: the summary of a query depends on the post-filter count n alone:
\* n = 0 gives the no-notes message; 1 <= n <= 20 lists every note, with the
\* encouragement exactly when n <= 15; n > 20 gives only the count and the
\* hint to narrow the query.
C24_SummaryShape ==
    sumpc = "done" =>
        LET n == Len(filtered_results)
        IN /\ n = 0 => result_summary =
                 [kind |-> "none", count |-> 0, listed |-> <<>>,
                  encourage |-> FALSE]
           /\ (1 <= n /\ n <= 20) => result_summary =
                 [kind |-> "detailed", count |-> n,
                  listed |-> filtered_results, encourage |-> (n <= 15)]
           /\ n > 20 => result_summary =
                 [kind |-> "count", count |-> n, listed |-> <<>>,
                  encourage |-> FALSE]

\* sixteen notes passed the filters, one was dropped: all sixteen are
\* listed, without the encouragement
C24_Witness ==
    /\ sumpc = "done"
    /\ outside = 1
    /\ Len(filtered_results) = 16
    /\ result_summary.kind = "detailed"
    /\ Len(result_summary.listed) = 16
    /\ ~result_summary.encourage

\* C27: the front texts recorded for a session are exactly the fronts of
\* the cards the store accepted.
C27_RecordedFrontsAccepted ==
    fpc = "recorded" =>
        {flashcard_fronts[i] : i \in 1..Len(flashcard_fronts)} =
            {to_add[i] : i \in {j \in 1..Len(to_add) : add_result[j]}}

\* C29: generate_flashcards_from_note_and_query sends a request to the
\* oracle and returns the cards the oracle produced, whether or not
\* previous fronts were given.
C29_RequestAlwaysSent ==
    qpc = "returned" =>
        /\ request_sent
        /\ oracle_reply.kind = "cards" => generated = oracle_reply.cards

====
